---- MODULE Spec2Model ----
(***************************************************************************)
(* Model of matter_config.py: the command-line tool that reads a Matter    *)
(* device attribute, writes a new value and verifies it by reading it      *)
(* back.  The external MatterClient / aiohttp session is the environment:  *)
(* every call the tool awaits is answered nondeterministically (returns,   *)
(* or raises an Exception).  Each action is the code that runs from the    *)
(* resumption of one await up to the next await.                           *)
(***************************************************************************)
EXTENDS Integers, Sequences, FiniteSets, TLC

VARIABLES
    pc,              \* position of the main task
    request,         \* the parsed arguments (main, lines 211-215)
    answer,          \* raw text typed at "Continue? (y/N): "
    confirm,         \* answer.strip().lower() (line 232)
    session,         \* aiohttp.ClientSession: "none" | "open" | "closed"
    conn,            \* MatterClient connection: "none" | "open" | "closed"
    listen,          \* background start_listening task
    connect_event,   \* asyncio.Event set by start_listening
    current_value,   \* line 100
    success,         \* line 111
    verified_value,  \* line 122
    ret,             \* outcome of configure_attribute_value
    calls,           \* history: client calls issued / resolved, in order
    resp,            \* history: what the client answered to each call
    log,             \* emitted logger records (level INFO and above)
    exit             \* how the process ended, and its exit code

vars == <<pc, request, answer, confirm, session, conn, listen, connect_event,
          current_value, success, verified_value, ret, calls, resp, log, exit>>

----------------------------------------------------------------------------
(* Bounds *)

MaxValue == 2
MaxAnswerLen == 2

(* Program constants *)

SleepSeconds == 2

----------------------------------------------------------------------------
(* Input domains *)

Values == 0..MaxValue
NodeIds == {3}
EndpointIds == {1}
ClusterIds == {1030}
AttributeIds == {3, 4}

Chars == {"y", "Y", "n", " "}
Answers == UNION {[1..n -> Chars] : n \in 0..MaxAnswerLen}

----------------------------------------------------------------------------
(* str(int): decimal digits, as a sequence of one-character strings *)

Digit(d) == <<"0", "1", "2", "3", "4", "5", "6", "7", "8", "9">>[d + 1]

RECURSIVE IntStr(_)
IntStr(n) == IF n < 10 THEN <<Digit(n)>>
             ELSE IntStr(n \div 10) \o <<Digit(n % 10)>>

(* f"{endpoint_id}/{cluster_id}/{attribute_id}" *)
attribute_path(endpoint_id, cluster_id, attribute_id) ==
    IntStr(endpoint_id) \o <<"/">> \o IntStr(cluster_id) \o <<"/">> \o IntStr(attribute_id)

PathKeys == {attribute_path(e, c, a) : e \in EndpointIds, c \in ClusterIds, a \in AttributeIds}

----------------------------------------------------------------------------
(* Python values that flow through the read path.                          *)
(*   t = "none" : None                                                     *)
(*   t = "int"  : the integer v                                            *)
(*   t = "dict" : the mapping {k: v}, or {k: None} when isnone             *)
(*   t = "raise": the awaited call raised an Exception                     *)

NoKey == <<>>
PyNone == [t |-> "none", k |-> NoKey, v |-> 0, isnone |-> TRUE]
PyInt(n) == [t |-> "int", k |-> NoKey, v |-> n, isnone |-> FALSE]
PyDict(key, n) == [t |-> "dict", k |-> key, v |-> n, isnone |-> FALSE]
PyDictNone(key) == [t |-> "dict", k |-> key, v |-> 0, isnone |-> TRUE]
PyRaise == [t |-> "raise", k |-> NoKey, v |-> 0, isnone |-> FALSE]
NotAsked == [t |-> "notasked", k |-> NoKey, v |-> 0, isnone |-> FALSE]

(* what client.read_attribute can answer *)
ReadResponses ==
    {PyNone, PyRaise}
    \cup {PyInt(n) : n \in Values}
    \cup {PyDict(key, n) : key \in PathKeys, n \in Values}
    \cup {PyDictNone(key) : key \in PathKeys}

(* what client.write_attribute can do: return, or raise an Exception *)
WriteResponses == {"ok", "raise"}

IsNone(x) == x.t = "none"

(* Python's x == new_value for an int new_value: a dict never equals an int *)
PyEqInt(x, n) == x.t = "int" /\ x.v = n

----------------------------------------------------------------------------
(* str.strip(), str.lower(), str.startswith('y') on the prompt's answer *)

RECURSIVE lstrip(_)
lstrip(s) == IF s # <<>> /\ Head(s) = " " THEN lstrip(Tail(s)) ELSE s

RECURSIVE rstrip(_)
rstrip(s) == IF s # <<>> /\ s[Len(s)] = " " THEN rstrip(SubSeq(s, 1, Len(s) - 1)) ELSE s

strip(s) == rstrip(lstrip(s))

LowerChar(c) == IF c = "Y" THEN "y" ELSE c

lower(s) == [i \in DOMAIN s |-> LowerChar(s[i])]

startswith(s, c) == s # <<>> /\ s[1] = c

(* line 232 *)
ConfirmText(raw) == lower(strip(raw))

(* line 233 misreads the gate as "contains a y" *)
Confirmed_contains(text) == \E i \in DOMAIN text : text[i] = "y"

(* line 233: the run proceeds iff confirm.startswith('y') *)
Confirmed(text) == startswith(text, "y")

----------------------------------------------------------------------------
(* read_attribute_value, lines 29-57: what it returns for a client answer *)

(* the dict entry is never extracted: the result is returned as-is *)
read_attribute_value_asis(r, path) ==
    IF r.t = "raise" THEN PyNone
    ELSE IF r.t = "none" THEN PyNone
    ELSE r

read_attribute_value(r, path) ==
    IF r.t = "raise" THEN PyNone                     \* lines 55-57
    ELSE IF r.t = "none" THEN PyNone                 \* lines 51-53
    ELSE IF r.t = "dict" /\ r.k = path               \* line 43
         THEN (IF r.isnone THEN PyNone ELSE PyInt(r.v))   \* lines 44-46
    ELSE r                                           \* line 50

(* the records read_attribute_value logs at level INFO or above *)
read_log(r) ==
    IF r.t = "raise" THEN << <<"error", "Error reading attribute", PyNone>> >>
    ELSE IF r.t = "none" THEN << <<"error", "Failed to read attribute: No result returned", PyNone>> >>
    ELSE <<>>

(* write_attribute_value, lines 60-75 *)

(* the except branch also reports success *)
write_attribute_value_always(w) == TRUE

write_attribute_value(w) == w = "ok"

write_log(w, value) ==
    IF w = "ok" THEN << <<"info", "Successfully wrote value", PyInt(value)>> >>
    ELSE << <<"error", "Error writing attribute", PyNone>> >>

(* lines 104-107 *)
baseline_log(cur) ==
    IF ~IsNone(cur) THEN << <<"info", "Current attribute value", cur>> >>
    ELSE << <<"warning", "Could not read current attribute value, proceeding anyway", PyNone>> >>

(* lines 126-136: the value returned, and the record logged *)

(* any value that was read back counts as verified *)
VerifyResult_present(verified, new_value) ==
    IF ~IsNone(verified)
    THEN [ret |-> "True", log |-> << <<"info", "Successfully configured attribute", verified>> >>]
    ELSE [ret |-> "False", log |-> << <<"warning", "Could not verify the new attribute value", PyNone>> >>]

(* a verification read without a value is let through as a success *)
VerifyResult_lenient(verified, new_value) ==
    IF ~IsNone(verified)
    THEN IF PyEqInt(verified, new_value)
         THEN [ret |-> "True", log |-> << <<"info", "Successfully configured attribute", verified>> >>]
         ELSE [ret |-> "False", log |-> << <<"warning", "Attribute was set but shows unexpected value", verified>> >>]
    ELSE [ret |-> "True", log |-> << <<"warning", "Could not verify the new attribute value", PyNone>> >>]

VerifyResult(verified, new_value) ==
    IF ~IsNone(verified)
    THEN IF PyEqInt(verified, new_value)
         THEN [ret |-> "True", log |-> << <<"info", "Successfully configured attribute", verified>> >>]
         ELSE [ret |-> "False", log |-> << <<"warning", "Attribute was set but shows unexpected value", verified>> >>]
    ELSE [ret |-> "False", log |-> << <<"warning", "Could not verify the new attribute value", PyNone>> >>]

(* line 138: "except Exception" catches Exception, not CancelledError *)

(* the handler is missing: nothing is caught *)
ConfigureCatches_none(exc) == FALSE

ConfigureCatches(exc) == exc = "Exception"

(* leaving the "async with" blocks of lines 87-88 *)

Release(c) == IF c = "open" THEN "closed" ELSE c

(* lines 258-265: what the process does with what asyncio.run(main()) raises *)
TopLevel(exc) ==
    IF exc = "KeyboardInterrupt" THEN [kind |-> "interrupted", code |-> 0, log |-> <<>>]
    ELSE [kind |-> "unexpected_error", code |-> 1,
          log |-> << <<"error", "Unexpected error", PyNone>> >>]

Path == attribute_path(request.endpoint_id, request.cluster_id, request.attribute_id)

Running == [kind |-> "running", code |-> 0]

----------------------------------------------------------------------------
(* State after main has parsed its arguments (lines 195-229) *)

Init ==
    /\ pc = "confirm"
    /\ request \in [new_value : Values, node_id : NodeIds, endpoint_id : EndpointIds,
                    cluster_id : ClusterIds, attribute_id : AttributeIds]
    /\ answer = <<>>
    /\ confirm = <<>>
    /\ session = "none"
    /\ conn = "none"
    /\ listen = "none"
    /\ connect_event = FALSE
    /\ current_value = NotAsked
    /\ success = FALSE
    /\ verified_value = NotAsked
    /\ ret = "none"
    /\ calls = <<>>
    /\ resp = [baseline |-> NotAsked, write |-> "notasked", verify |-> NotAsked,
               connect |-> "notasked"]
    /\ log = <<>>
    /\ exit = Running

Call(op, n) == <<"call", op, n>>
Done(op) == <<"done", op, 0>>

(* lines 231-238 and 81-88: the prompt is answered; a declined run returns,  *)
(* a confirmed one enters configure_attribute_value, opens the HTTP session *)
(* and awaits MatterClient.__aenter__                                       *)
Confirm(raw) ==
    /\ pc = "confirm"
    /\ answer' = raw
    /\ confirm' = ConfirmText(raw)
    /\ IF ~Confirmed(ConfirmText(raw))
       THEN /\ pc' = "done"
            /\ exit' = [kind |-> "declined", code |-> 0]
            /\ UNCHANGED <<session, calls, log>>
       ELSE /\ pc' = "client_enter"
            /\ session' = "open"
            /\ calls' = Append(calls, Call("connect", 0))
            /\ log' = Append(log, <<"info", "Connecting to Matter server", PyNone>>)
            /\ exit' = exit
    /\ UNCHANGED <<request, conn, listen, connect_event, current_value, success,
                   verified_value, ret, resp>>

(* line 232 with standard input closed: input() raises EOFError, which      *)
(* leaves main and is handled at lines 263-265                              *)
ConfirmEOF ==
    /\ pc = "confirm"
    /\ pc' = "done"
    /\ exit' = [kind |-> TopLevel("Exception").kind, code |-> TopLevel("Exception").code]
    /\ log' = log \o TopLevel("Exception").log
    /\ UNCHANGED <<request, answer, confirm, session, conn, listen, connect_event,
                   current_value, success, verified_value, ret, calls, resp>>

(* lines 88-92: the connection is established; the event is created, the    *)
(* listening task is started and the main task waits on the event           *)
ClientEnterOk ==
    /\ pc = "client_enter"
    /\ conn' = "open"
    /\ connect_event' = FALSE
    /\ listen' = "starting"
    /\ calls' = Append(calls, Done("connect"))
    /\ resp' = [resp EXCEPT !.connect = "ok"]
    /\ pc' = "wait_connect"
    /\ UNCHANGED <<request, answer, confirm, session, current_value, success,
                   verified_value, ret, log, exit>>

(* lines 88, 138-140: connecting raises; the session block is left and the  *)
(* handler of line 138 turns the exception into False                       *)
ClientEnterRaise ==
    /\ pc = "client_enter"
    /\ session' = Release(session)
    /\ calls' = Append(calls, Done("connect"))
    /\ resp' = [resp EXCEPT !.connect = "raise"]
    /\ IF ConfigureCatches("Exception")
       THEN /\ ret' = "False"
            /\ log' = Append(log, <<"error", "Unexpected error", PyNone>>)
       ELSE /\ ret' = "raised"
            /\ log' = log
    /\ pc' = "returned"
    /\ UNCHANGED <<request, answer, confirm, conn, listen, connect_event,
                   current_value, success, verified_value, exit>>

(* client.start_listening(connect_event) reaches the point where it sets    *)
(* the event                                                                *)
ListenReady ==
    /\ listen = "starting"
    /\ listen' = "listening"
    /\ connect_event' = TRUE
    /\ UNCHANGED <<pc, request, answer, confirm, session, conn, current_value,
                   success, verified_value, ret, calls, resp, log, exit>>

(* client.start_listening raises or returns before it sets the event; the   *)
(* task created at line 91 is never awaited, so nobody sees its outcome     *)
ListenFail ==
    /\ listen = "starting"
    /\ listen' = "failed"
    /\ UNCHANGED <<pc, request, answer, confirm, session, conn, connect_event,
                   current_value, success, verified_value, ret, calls, resp, log, exit>>

(* lines 92-102: the wait on the event returns; the baseline read is issued *)
WaitConnect ==
    /\ pc = "wait_connect"
    /\ connect_event
    /\ log' = log \o << <<"info", "Connected to Matter server", PyNone>>,
                        <<"info", "Reading current attribute value", PyNone>> >>
    /\ calls' = Append(calls, Call("read", 0))
    /\ pc' = "read1"
    /\ UNCHANGED <<request, answer, confirm, session, conn, listen, connect_event,
                   current_value, success, verified_value, ret, resp, exit>>

(* the baseline read ends the run when it yields no value *)
ReadBaseline_fatal(r) ==
    /\ pc = "read1"
    /\ current_value' = read_attribute_value(r, Path)
    /\ resp' = [resp EXCEPT !.baseline = r]
    /\ IF IsNone(read_attribute_value(r, Path))
       THEN /\ pc' = "returned"
            /\ ret' = "False"
            /\ conn' = Release(conn)
            /\ session' = Release(session)
            /\ listen' = "cancelled"
            /\ calls' = Append(calls, Done("read"))
            /\ log' = log \o read_log(r)
       ELSE /\ pc' = "write"
            /\ calls' = calls \o <<Done("read"), Call("write", request.new_value)>>
            /\ log' = log \o read_log(r) \o baseline_log(read_attribute_value(r, Path))
            /\ UNCHANGED <<ret, conn, session, listen>>
    /\ UNCHANGED <<request, answer, confirm, connect_event, success, verified_value, exit>>

(* lines 100-113: the baseline read resolves; whatever it yielded, the      *)
(* write of new_value is issued                                             *)
ReadBaseline(r) ==
    /\ pc = "read1"
    /\ current_value' = read_attribute_value(r, Path)
    /\ resp' = [resp EXCEPT !.baseline = r]
    /\ log' = log \o read_log(r) \o baseline_log(read_attribute_value(r, Path))
                  \o << <<"info", "Setting attribute", PyInt(request.new_value)>> >>
    /\ calls' = calls \o <<Done("read"), Call("write", request.new_value)>>
    /\ pc' = "write"
    /\ UNCHANGED <<request, answer, confirm, session, conn, listen, connect_event,
                   success, verified_value, ret, exit>>

(* a failed write is logged but the run goes on to the verification *)
WriteDone_continue(w) ==
    /\ pc = "write"
    /\ success' = write_attribute_value(w)
    /\ resp' = [resp EXCEPT !.write = w]
    /\ calls' = calls \o <<Done("write"), Call("sleep", SleepSeconds)>>
    /\ log' = log \o write_log(w, request.new_value)
                  \o << <<"info", "Verifying the change", PyNone>> >>
    /\ pc' = "sleep"
    /\ UNCHANGED <<request, answer, confirm, connect_event, current_value,
                   verified_value, exit, ret, conn, session, listen>>

(* lines 111-120: the write resolves; a failed write returns False and      *)
(* leaves both "async with" blocks, a successful one starts the sleep       *)
WriteDone(w) ==
    /\ pc = "write"
    /\ success' = write_attribute_value(w)
    /\ resp' = [resp EXCEPT !.write = w]
    /\ IF ~write_attribute_value(w)
       THEN /\ ret' = "False"
            /\ conn' = Release(conn)
            /\ session' = Release(session)
            /\ listen' = "cancelled"
            /\ calls' = Append(calls, Done("write"))
            /\ log' = log \o write_log(w, request.new_value)
            /\ pc' = "returned"
       ELSE /\ calls' = calls \o <<Done("write"), Call("sleep", SleepSeconds)>>
            /\ log' = log \o write_log(w, request.new_value)
                          \o << <<"info", "Verifying the change", PyNone>> >>
            /\ pc' = "sleep"
            /\ UNCHANGED <<ret, conn, session, listen>>
    /\ UNCHANGED <<request, answer, confirm, connect_event, current_value,
                   verified_value, exit>>

(* lines 120-124: the sleep is over; the verification read is issued *)
SleepDone ==
    /\ pc = "sleep"
    /\ calls' = calls \o <<Done("sleep"), Call("read", 0)>>
    /\ pc' = "read2"
    /\ UNCHANGED <<request, answer, confirm, session, conn, listen, connect_event,
                   current_value, success, verified_value, ret, resp, log, exit>>

(* lines 122-136: the verification read resolves; the result is decided and *)
(* both "async with" blocks are left                                        *)
ReadVerify(r) ==
    /\ pc = "read2"
    /\ verified_value' = read_attribute_value(r, Path)
    /\ resp' = [resp EXCEPT !.verify = r]
    /\ ret' = VerifyResult(read_attribute_value(r, Path), request.new_value).ret
    /\ log' = log \o read_log(r)
                  \o VerifyResult(read_attribute_value(r, Path), request.new_value).log
    /\ calls' = Append(calls, Done("read"))
    /\ conn' = Release(conn)
    /\ session' = Release(session)
    /\ listen' = "cancelled"
    /\ pc' = "returned"
    /\ UNCHANGED <<request, answer, confirm, connect_event, current_value, success, exit>>

(* lines 238-255 (and 263-265 if an exception left configure): main reports *)
Report ==
    /\ pc = "returned"
    /\ pc' = "done"
    /\ IF ret = "raised"
       THEN /\ exit' = [kind |-> TopLevel("Exception").kind, code |-> TopLevel("Exception").code]
            /\ log' = log \o TopLevel("Exception").log
       ELSE /\ exit' = [kind |-> IF ret = "True" THEN "reported_success" ELSE "reported_failure",
                        code |-> 0]
            /\ log' = log
    /\ UNCHANGED <<request, answer, confirm, session, conn, listen, connect_event,
                   current_value, success, verified_value, ret, calls, resp>>

SuspendPoints == {"client_enter", "wait_connect", "read1", "write", "sleep", "read2"}

(* the interrupt leaves the process without leaving the "async with" blocks *)
Interrupt_leak ==
    /\ pc \in SuspendPoints \cup {"confirm"}
    /\ pc' = "done"
    /\ ret' = IF pc = "confirm" THEN ret ELSE "cancelled"
    /\ listen' = IF listen \in {"starting", "listening"} THEN "cancelled" ELSE listen
    /\ exit' = [kind |-> TopLevel("KeyboardInterrupt").kind,
                code |-> TopLevel("KeyboardInterrupt").code]
    /\ log' = log \o TopLevel("KeyboardInterrupt").log
    /\ UNCHANGED <<request, answer, confirm, conn, session, connect_event, current_value,
                   success, verified_value, calls, resp>>

(* Ctrl-C while the main task is suspended (or at the prompt): asyncio.run  *)
(* cancels the main task; CancelledError is not an Exception, so line 138   *)
(* does not catch it, both "async with" blocks are left, and asyncio.run    *)
(* raises KeyboardInterrupt, handled at lines 261-262                       *)
Interrupt ==
    /\ pc \in SuspendPoints \cup {"confirm"}
    /\ pc' = "done"
    /\ ret' = IF pc = "confirm" THEN ret
              ELSE IF ConfigureCatches("CancelledError") THEN "False" ELSE "cancelled"
    /\ conn' = Release(conn)
    /\ session' = Release(session)
    /\ listen' = IF listen \in {"starting", "listening"} THEN "cancelled" ELSE listen
    /\ exit' = [kind |-> TopLevel("KeyboardInterrupt").kind,
                code |-> TopLevel("KeyboardInterrupt").code]
    /\ log' = log \o TopLevel("KeyboardInterrupt").log
    /\ UNCHANGED <<request, answer, confirm, connect_event, current_value,
                   success, verified_value, calls, resp>>

Step ==
    \/ \E raw \in Answers : Confirm(raw)
    \/ ConfirmEOF
    \/ ClientEnterOk
    \/ ClientEnterRaise
    \/ ListenReady
    \/ ListenFail
    \/ WaitConnect
    \/ \E r \in ReadResponses : ReadBaseline(r)
    \/ \E w \in WriteResponses : WriteDone(w)
    \/ SleepDone
    \/ \E r \in ReadResponses : ReadVerify(r)
    \/ Report

Next == Step \/ Interrupt

Spec == Init /\ [][Next]_vars

(* Every awaited call eventually returns or raises and the event loop keeps *)
(* running ready tasks; the user is never obliged to interrupt.             *)
LiveSpec == Init /\ [][Next]_vars /\ WF_vars(Step)

----------------------------------------------------------------------------
(* Vocabulary of the properties *)

Finished == pc \in {"returned", "done"}

LastLog == log[Len(log)]

NumCalls(op) == Cardinality({i \in DOMAIN calls : calls[i][1] = "call" /\ calls[i][2] = op})

StartsWithY(s) == startswith(s, "y") \/ startswith(s, "Y")

MismatchRecord(c) == <<"warning", "Attribute was set but shows unexpected value", c>>
AbsentRecord == <<"warning", "Could not verify the new attribute value", PyNone>>
WriteErrorRecord == <<"error", "Error writing attribute", PyNone>>

(* the client operations of a complete run, in order *)
FullRun == <<Call("connect", 0), Done("connect"),
             Call("read", 0), Done("read"),
             Call("write", request.new_value), Done("write"),
             Call("sleep", SleepSeconds), Done("sleep"),
             Call("read", 0), Done("read")>>

----------------------------------------------------------------------------
(* C1 - happy path: when the connection was established, the write returned *)
(* without error and the verification read answered the desired value,      *)
(* either directly or as the entry of the mapping keyed by the attribute    *)
(* path, configure_attribute_value returns True.                            *)
C1_HappyPath ==
    (/\ Finished
     /\ resp.connect = "ok"
     /\ resp.write = "ok"
     /\ resp.verify \in {PyInt(request.new_value), PyDict(Path, request.new_value)})
    => (ret = "True" /\ (pc = "done" => exit = [kind |-> "reported_success", code |-> 0]))

(* a finished run whose baseline was a value A # B, read as a mapping entry, *)
(* and whose verification read answered the mapping with B                  *)
C1_Witness ==
    /\ pc = "done"
    /\ resp.baseline.t = "dict" /\ resp.baseline.k = Path /\ ~resp.baseline.isnone
    /\ resp.baseline.v # request.new_value
    /\ resp.write = "ok"
    /\ resp.verify = PyDict(Path, request.new_value)
    /\ ret = "True"

(* C2 - mismatch: when the write returned without error and the             *)
(* verification read yielded a value C that is not the desired value, the   *)
(* run is a failure (False, never True) and its last log record is the      *)
(* mismatch warning carrying C.                                             *)
C2_Mismatch ==
    (/\ Finished
     /\ resp.write = "ok"
     /\ resp.verify # NotAsked
     /\ ~IsNone(verified_value)
     /\ ~PyEqInt(verified_value, request.new_value))
    => (/\ ret = "False"
        /\ LastLog = MismatchRecord(verified_value)
        /\ (pc = "done" => exit.kind = "reported_failure"))

C2_Witness ==
    /\ pc = "done"
    /\ resp.write = "ok"
    /\ verified_value.t = "int"
    /\ verified_value.v # request.new_value
    /\ ret = "False"
    /\ LastLog = MismatchRecord(verified_value)

(* C3 - a failed write short-circuits: once the write call has raised, the  *)
(* result is False with the write error as the last log record, and the     *)
(* resolution of the write is the last client operation of the run: no      *)
(* sleep and no second read are ever issued.                                *)
C3_WriteFailure ==
    resp.write = "raise"
    => (/\ Finished
        /\ ret = "False"
        /\ LastLog = WriteErrorRecord
        /\ calls[Len(calls)] = Done("write")
        /\ NumCalls("sleep") = 0
        /\ NumCalls("read") = 1)

C3_Witness ==
    /\ pc = "done"
    /\ resp.write = "raise"
    /\ ret = "False"
    /\ exit.kind = "reported_failure"

(* C4 - the baseline read is optional: once the baseline read has resolved  *)
(* (with a value, with nothing, or by raising) the next client operation is *)
(* the write of the desired value, and the result of a run that was not     *)
(* interrupted is determined by the write and the verification read alone.  *)
C4_BaselineOptional ==
    resp.baseline # NotAsked
    => (/\ Len(calls) >= 5
        /\ SubSeq(calls, 1, 5) = SubSeq(FullRun, 1, 5)
        /\ (Finished /\ exit.kind # "interrupted")
           => (/\ resp.write # "notasked"
               /\ ret = IF resp.write = "raise" THEN "False"
                        ELSE VerifyResult(read_attribute_value(resp.verify, Path),
                                          request.new_value).ret))

(* a run whose baseline read raised and which nevertheless succeeded *)
C4_Witness ==
    /\ pc = "done"
    /\ resp.baseline = PyRaise
    /\ IsNone(current_value)
    /\ NumCalls("write") = 1
    /\ ret = "True"

(* C5 as claimed - when the write succeeded and the verification read       *)
(* yielded no value, the run does not crash, fails with the "no value"      *)
(* reason, and what configure_attribute_value hands to its caller differs   *)
(* from what it hands over for a mismatch.                                  *)
C5_CallerTellsApart ==
    (/\ Finished
     /\ resp.write = "ok"
     /\ resp.verify # NotAsked
     /\ IsNone(verified_value))
    => (/\ ret = "False"
        /\ LastLog = AbsentRecord
        /\ exit.kind # "unexpected_error"
        /\ \A n \in Values \ {request.new_value} :
              VerifyResult(PyInt(n), request.new_value).ret # ret)

(* C5 as amended - when the write succeeded and the verification read       *)
(* yielded no value (absent, a mapping entry of None, or an exception), the *)
(* run does not crash: False is returned and the last log record is the     *)
(* "could not verify" warning, which differs from the mismatch warning and  *)
(* from the write error; main reports a failure with exit code 0.           *)
C5_VerificationAbsence ==
    (/\ Finished
     /\ resp.write = "ok"
     /\ resp.verify # NotAsked
     /\ IsNone(verified_value))
    => (/\ ret = "False"
        /\ LastLog = AbsentRecord
        /\ LastLog # WriteErrorRecord
        /\ \A n \in Values : LastLog # MismatchRecord(PyInt(n))
        /\ (pc = "done" => exit = [kind |-> "reported_failure", code |-> 0]))

C5_Witness ==
    /\ pc = "done"
    /\ resp.write = "ok"
    /\ resp.verify = PyRaise
    /\ IsNone(verified_value)
    /\ ret = "False"
    /\ LastLog = AbsentRecord

(* C6 - scoped connection: whenever configure_attribute_value has been left *)
(* or the process has ended, neither the HTTP session nor the connection is *)
(* open; an interrupted process ends with exit code 0, its task cancelled   *)
(* rather than turned into a result, and no "Unexpected error" is logged.   *)
C6_ScopedConnection ==
    /\ Finished => (session # "open" /\ conn # "open")
    /\ exit.kind = "interrupted"
       => (/\ pc = "done"
           /\ exit.code = 0
           /\ ret \in {"none", "cancelled"}
           /\ \A i \in DOMAIN log : log[i][2] # "Unexpected error")

(* a run interrupted while the verification read was outstanding *)
C6_Witness ==
    /\ pc = "done"
    /\ exit.kind = "interrupted"
    /\ calls = SubSeq(FullRun, 1, 9)
    /\ conn = "closed"
    /\ session = "closed"

C8_RawAnswerGate ==
    /\ (pc # "confirm" /\ ~StartsWithY(answer))
       => (calls = <<>> /\ session = "none" /\ conn = "none")
    /\ NumCalls("write") > 0 => StartsWithY(answer)

(* C8 as amended - an answer that, with its leading and trailing whitespace *)
(* removed, does not start with 'y' or 'Y' (the empty answer included) ends *)
(* the run without a session, a connection or any client call; a write is   *)
(* issued only when the stripped answer starts with 'y' or 'Y'.             *)
C8_ConfirmationGate ==
    /\ (pc # "confirm" /\ ~StartsWithY(strip(answer)))
       => (/\ pc = "done"
           /\ calls = <<>>
           /\ session = "none" /\ conn = "none" /\ listen = "none")
    /\ NumCalls("write") > 0 => StartsWithY(strip(answer))

(* a declined run whose answer has a y, but not in front once stripped *)
C8_Witness ==
    /\ pc = "done"
    /\ exit.kind = "declined"
    /\ answer \in {<<" ", "n">>, <<"n", "y">>}
    /\ calls = <<>>
    /\ session = "none"

(* C9 - no false success, strict order: a run that returned True issued     *)
(* exactly connect, read, write of the desired value, sleep, read, the      *)
(* write returned without error and the verified value equals the desired   *)
(* one; in every state each issued operation is resolved before the next is *)
(* issued, at most one write and at most two reads have been issued.        *)
C9_StrictOrder ==
    /\ ret = "True"
       => (/\ calls = FullRun
           /\ resp.connect = "ok"
           /\ resp.write = "ok"
           /\ PyEqInt(verified_value, request.new_value))
    /\ \A i \in DOMAIN calls :
          (calls[i][1] = "call" /\ i < Len(calls)) => calls[i + 1] = Done(calls[i][2])
    /\ \A i \in DOMAIN calls :
          calls[i][1] = "done" => (i > 1 /\ calls[i - 1][1] = "call")
    /\ NumCalls("write") <= 1
    /\ NumCalls("read") <= 2
    /\ NumCalls("connect") <= 1
    /\ \A i \in DOMAIN calls : calls[i][2] = "write" /\ calls[i][1] = "call"
                               => calls[i][3] = request.new_value

C9_Witness ==
    /\ pc = "done"
    /\ ret = "True"
    /\ calls = FullRun
    /\ resp.verify = PyInt(request.new_value)

(* C10 as claimed - termination: once the main task waits for the readiness *)
(* signal, configure_attribute_value is eventually left, whatever the       *)
(* listening task and the client calls do.                                  *)
C10_Termination == (pc = "wait_connect") ~> Finished

====
